---- MODULE Spec2Model ----
(***************************************************************************)
(* Model of the two forecasting command-line programs of the repository:   *)
(*   program "A" = scripts/chronos_predict.py (quantile forecaster)        *)
(*   program "B" = scripts/lstm_validate.py   (LSTM autoregressive loop)   *)
(* One run of one program is one behaviour.  The remote hub, the ML        *)
(* runtimes and the pretrained models are the environment: every call to   *)
(* them draws its outcome (a value or a raised exception) from a small     *)
(* set.                                                                    *)
(*                                                                         *)
(* Numbers.  Prices are integer-valued floats.  In the single-feature      *)
(* paths every quantity is an exact fraction [n |-> numerator, d |->       *)
(* denominator].  In the 6-feature path a prediction is                     *)
(* pred_val * np.std(window) + np.mean(window), in general an irrational   *)
(* number: it is kept as that exact term, and every quantity computed from *)
(* the window is an exact linear form over the run's predictions.          *)
(***************************************************************************)
EXTENDS Integers, Sequences, FiniteSets, TLC

VARIABLES
    program,          \* "A" or "B": which script is running
    pc,               \* position of the run inside main / load_model / predict
    args_prices,      \* args.prices: the --prices string, a sequence of characters
    args_steps,       \* args.steps: the --steps integer (argparse default applied)
    prices,           \* main: the parsed list of floats
    stdout,           \* the JSON objects printed on standard output, in order
    exit_status,      \* the process exit status once pc = "exit"
    calls,            \* the calls made to the hub / model loaders, in order
    HAS_TF,           \* lstm_validate: whether TensorFlow could be imported
    cand_idx,         \* load_model: index of the next candidate filename to try
    model_path,       \* load_model: model_path (None or a filename)
    scaler_path,      \* load_model: scaler_path
    metadata_path,    \* load_model: metadata_path
    last_error,       \* load_model: last_error
    model,            \* main: the loaded model handle
    err,              \* main: the error string returned by load_model
    current_sequence, \* predict: current_sequence (raw window)
    input_tensor,     \* predict: input_tensor (the window fed to inference)
    min_val,          \* predict: min_val
    scale,            \* predict: scale
    predictions,      \* predict: predictions
    step_i,           \* predict: number of loop iterations done
    inferences,       \* the windows lengths and outputs of the inference calls made
    normalization     \* predict: how the current input_tensor was normalized

vars == <<program, pc, args_prices, args_steps, prices, stdout, exit_status,
          calls, HAS_TF, cand_idx, model_path, scaler_path, metadata_path,
          last_error, model, err, current_sequence, input_tensor, min_val,
          scale, predictions, step_i, inferences, normalization>>

-----------------------------------------------------------------------------
(* Program constants *)

SEQUENCE_LENGTH == 60

NUM_SAMPLES == 20

DEFAULT_STEPS_A == 10

DEFAULT_STEPS_B == 5

(* Bounds of the model *)

\* explicit --steps values tried are 0..MaxSteps (plus the argparse default)
MaxSteps == 2

\* valid series have SEQUENCE_LENGTH .. SEQUENCE_LENGTH + MaxExtra points
MaxExtra == 1

\* seeds of the sample trajectories the Chronos pipeline returns
MaxSeed == 3

None == "None"

-----------------------------------------------------------------------------
(* Character strings: the --prices argument is a sequence of 1-character   *)
(* strings over the digits, "-", "," and the non-numeric letter "x".       *)

Digits == <<"0", "1", "2", "3", "4", "5", "6", "7", "8", "9">>

IsDigit(c) == \E k \in 1..10 : Digits[k] = c

DigitVal(c) == (CHOOSE k \in 1..10 : Digits[k] = c) - 1

\* index of the first "," of s at or after position from, Len(s)+1 if none
NextComma(s, from) ==
    CHOOSE i \in from..(Len(s) + 1) :
        /\ (i = Len(s) + 1 \/ s[i] = ",")
        /\ \A j \in from..(i - 1) : s[j] # ","

\* str.split(','): the tokens between commas; "" splits into one empty token
RECURSIVE SplitFrom(_, _)
SplitFrom(s, from) ==
    LET c == NextComma(s, from)
    IN  IF c > Len(s) THEN << SubSeq(s, from, Len(s)) >>
        ELSE << SubSeq(s, from, c - 1) >> \o SplitFrom(s, c + 1)

Split(s) == SplitFrom(s, 1)

RECURSIVE DecVal(_, _)
DecVal(ds, acc) ==
    IF ds = <<>> THEN acc ELSE DecVal(Tail(ds), 10 * acc + DigitVal(Head(ds)))

AllDigits(ds) == ds # <<>> /\ \A k \in 1..Len(ds) : IsDigit(ds[k])

\* variant: a sign with no digits after it is accepted
FloatOkSignOnly(tok) ==
    IF tok # <<>> /\ Head(tok) = "-"
    THEN \A k \in 1..Len(Tail(tok)) : IsDigit(Tail(tok)[k])
    ELSE AllDigits(tok)

\* float(x) succeeds on an optionally signed run of digits; anything else
\* in the alphabet above (empty token, "x", a lone "-") raises ValueError
FloatOk(tok) ==
    IF tok # <<>> /\ Head(tok) = "-" THEN AllDigits(Tail(tok)) ELSE AllDigits(tok)

FloatOf(tok) ==
    IF Head(tok) = "-" THEN 0 - DecVal(Tail(tok), 0) ELSE DecVal(tok, 0)

\* [float(x) for x in args.prices.split(',')]
ParsePricesOk(s) == LET toks == Split(s) IN \A k \in 1..Len(toks) : FloatOk(toks[k])

ParsePrices(s) == LET toks == Split(s) IN [k \in 1..Len(toks) |-> FloatOf(toks[k])]

-----------------------------------------------------------------------------
(* The command lines tried *)

RECURSIVE Str(_)
Str(n) ==
    IF n < 0 THEN <<"-">> \o Str(0 - n)
    ELSE IF n < 10 THEN <<Digits[n + 1]>>
    ELSE Str(n \div 10) \o <<Digits[(n % 10) + 1]>>

RECURSIVE Join(_)
Join(toks) ==
    IF toks = <<>> THEN <<>>
    ELSE IF Len(toks) = 1 THEN Head(toks)
    ELSE Head(toks) \o <<",">> \o Join(Tail(toks))

Shapes == {"ramp", "const", "wave"}

ShapeVal(shape, i) ==
    CASE shape = "ramp"  -> i
      [] shape = "const" -> 7
      [] shape = "wave"  -> ((i * 7) % 11) - 3

Series(shape, n) == [i \in 1..n |-> Str(ShapeVal(shape, i))]

Lengths == {1, SEQUENCE_LENGTH - 1} \cup (SEQUENCE_LENGTH .. SEQUENCE_LENGTH + MaxExtra)

\* a well-formed series, or one with a token replaced / a trailing comma / empty
Corruptions == {"none", "first", "last", "trailing_comma", "lone_minus"}

Corrupt(toks, how) ==
    CASE how = "none"  -> toks
      [] how = "first" -> [toks EXCEPT ![1] = <<"x">>]
      [] how = "last"  -> [toks EXCEPT ![Len(toks)] = Append(toks[Len(toks)], "x")]
      [] how = "trailing_comma" -> Append(toks, <<>>)
      [] how = "lone_minus" -> [toks EXCEPT ![Len(toks)] = <<"-">>]

\* series long enough for the LSTM window
ValidArgs(shapes) ==
    {Join(Series(sh, n)) : sh \in shapes, n \in SEQUENCE_LENGTH .. (SEQUENCE_LENGTH + MaxExtra)}

\* well-formed series that are too short for the LSTM window
ShortArgs == {Join(Series(sh, n)) : sh \in Shapes, n \in {1, SEQUENCE_LENGTH - 1}}

\* strings with a token that is not a float
MalformedArgs ==
    {Join(Corrupt(Series(sh, n), how)) : sh \in Shapes, n \in Lengths,
                                          how \in Corruptions \ {"none"}} \cup {<<>>}

\* the --prices strings of the whole-program runs
PriceArgs == ValidArgs({"ramp"}) \cup ShortArgs \cup MalformedArgs

StepArgs(p) == (0..MaxSteps) \cup {IF p = "A" THEN DEFAULT_STEPS_A ELSE DEFAULT_STEPS_B}

-----------------------------------------------------------------------------
(* Exact fractions *)

Frac(n, d) == [n |-> n, d |-> d]

FracEq(a, b) == a.n * b.d = b.n * a.d

FracLe(a, b) == a.n * b.d <= b.n * a.d

-----------------------------------------------------------------------------
(* Standard output, exceptions and the log of external calls *)

\* a remote file name: its stem, its extension, and the lower-case marker words
\* ("scaler", "metadata") that occur in the name
NamedFile(stem, ext, words) == [stem |-> stem, ext |-> ext, words |-> words]

File(stem, ext) == NamedFile(stem, ext, {})

NoFile == File("", "")

NoError == [exc |-> None, file |-> NoFile]

\* the exception hf_hub_download raises for `file`
DownloadError(file) == [exc |-> "EntryNotFoundError", file |-> file]

\* an error string: its fixed text, the file list and the exception it embeds
Msg(text, has_files, files, cause) ==
    [text |-> text, has_files |-> has_files, files |-> files, cause |-> cause]

PlainMsg(text) == Msg(text, FALSE, <<>>, NoError)

\* print(json.dumps({"error": msg}))
ErrorObj(msg) == [error |-> msg]

\* one external call: the operation, the file asked for, whether it returned
\* (ok) or raised, and the file list returned by a listing
Call(op, file, ok) == [op |-> op, file |-> file, ok |-> ok, files |-> <<>>]

\* variant: the error is printed but the exit status is left at 0
FailWithoutStatus(msg) ==
    /\ stdout' = Append(stdout, ErrorObj(msg))
    /\ exit_status' = 0
    /\ pc' = "exit"

\* print(json.dumps({"error": ...})); sys.exit(1)
FailWith(msg) ==
    /\ stdout' = Append(stdout, ErrorObj(msg))
    /\ exit_status' = 1
    /\ pc' = "exit"

loadVars == <<cand_idx, model_path, scaler_path, metadata_path, last_error, model, err>>

predictVars == <<current_sequence, input_tensor, min_val, scale, predictions, step_i,
                 inferences, normalization>>

argVars == <<program, args_prices, args_steps, HAS_TF>>

-----------------------------------------------------------------------------
(* Program A: chronos_predict.py *)

\* sample trajectory k of the forecast at position j, for one draw of the sampler
Sample(seed, k, j) == ((seed * k * k + 5 * k + 3 * j) % 23) - 4

\* forecast[0]: NUM_SAMPLES rows of prediction_length values
Forecast(seed, steps) ==
    [k \in 1..NUM_SAMPLES |-> [j \in 1..steps |-> Sample(seed, k, j)]]

Column(matrix, j) == [k \in 1..Len(matrix) |-> matrix[k][j]]

\* variant: the samples are left in trajectory order
NoSort(col) == col

\* the samples of one position in ascending order, as torch.quantile orders them
SortAsc(col) == SortSeq(col, LAMBDA a, b : a < b)

\* torch.quantile(col, q) with linear interpolation, q given in tenths:
\* position q*(n-1) between the two neighbouring order statistics
Quantile(col, q10) ==
    LET s     == SortAsc(col)
        pos10 == q10 * (Len(col) - 1)
        lo    == pos10 \div 10
        fr    == pos10 % 10
        hi    == IF fr = 0 THEN lo ELSE lo + 1
    IN  Frac(10 * s[lo + 1] + fr * (s[hi + 1] - s[lo + 1]), 10)

\* torch.quantile(forecast[0], q, dim=0): one value per forecast position
QuantileRow(matrix, q10) ==
    [j \in 1..Len(matrix[1]) |-> Quantile(Column(matrix, j), q10)]

A_Result(forecast) ==
    [prediction  |-> QuantileRow(forecast, 5),
     lower_bound |-> QuantileRow(forecast, 1),
     upper_bound |-> QuantileRow(forecast, 9)]

A_Parse ==
    /\ program = "A" /\ pc = "parse"
    /\ IF ParsePricesOk(args_prices)
       THEN /\ prices' = ParsePrices(args_prices)
            /\ pc' = "load"
            /\ UNCHANGED <<stdout, exit_status>>
       ELSE /\ FailWith(PlainMsg("Invalid price format"))
            /\ UNCHANGED prices
    /\ UNCHANGED <<argVars, calls, loadVars, predictVars>>

A_LoadModel ==
    /\ program = "A" /\ pc = "load"
    /\ \E ok \in BOOLEAN :
        /\ calls' = Append(calls, Call("from_pretrained", File("amazon/chronos-t5-small", ""), ok))
        /\ IF ok
           THEN /\ pc' = "predict"
                /\ UNCHANGED <<stdout, exit_status>>
           ELSE FailWith(PlainMsg("Failed to load model"))
    /\ UNCHANGED <<argVars, prices, loadVars, predictVars>>

\* pipeline.predict, torch.quantile and the print, all inside one try block.
\* The pipeline cannot build a forecast of fewer than one step: it raises.
A_Predict ==
    /\ program = "A" /\ pc = "predict"
    /\ \/ /\ FailWith(PlainMsg("Prediction failed"))
          /\ UNCHANGED inferences
       \/ /\ args_steps >= 1
          /\ \E seed \in 0..MaxSeed :
               /\ stdout' = Append(stdout, A_Result(Forecast(seed, args_steps)))
               /\ inferences' = Append(inferences, Forecast(seed, args_steps))
          /\ exit_status' = 0
          /\ pc' = "exit"
    /\ UNCHANGED <<argVars, prices, calls, loadVars, current_sequence, input_tensor,
                   min_val, scale, predictions, step_i, normalization>>

-----------------------------------------------------------------------------
(* Program B: lstm_validate.py, main up to load_model *)

B_Parse ==
    /\ program = "B" /\ pc = "parse"
    /\ IF ParsePricesOk(args_prices)
       THEN /\ prices' = ParsePrices(args_prices)
            /\ pc' = "check_len"
            /\ UNCHANGED <<stdout, exit_status>>
       ELSE /\ FailWith(PlainMsg("Invalid price format"))
            /\ UNCHANGED prices
    /\ UNCHANGED <<argVars, calls, loadVars, predictVars>>

\* variant: the length check is off by one
TooShortOffByOne(ps) == Len(ps) < SEQUENCE_LENGTH - 1

\* len(prices) < SEQUENCE_LENGTH
TooShort(ps) == Len(ps) < SEQUENCE_LENGTH

B_CheckLength ==
    /\ program = "B" /\ pc = "check_len"
    /\ IF TooShort(prices)
       THEN FailWith(PlainMsg("Need at least SEQUENCE_LENGTH price points"))
       ELSE /\ pc' = "lm_list"
            /\ UNCHANGED <<stdout, exit_status>>
    /\ UNCHANGED <<argVars, prices, calls, loadVars, predictVars>>

-----------------------------------------------------------------------------
(* load_model *)

possible_filenames ==
    << File("model", "pth"), File("pytorch_model", "bin"), File("model", "bin"),
       File("lstm_model", "pth"), File("stock_lstm", "pth"),
       File("pytorch_model", "pt"), File("model", "pt") >>

keras_files ==
    << File("stage2_universal_lstm_20250705_170829", "keras"),
       File("model", "keras"), File("lstm_model", "keras") >>

\* what list_repo_files may return when it does not raise
RepoListings ==
    { << File("README", "md") >>,
      << File("README", "md"),
         NamedFile("Scaler_notes", "json", {"scaler"}),
         NamedFile("Feature_Scaler", "pkl", {"scaler"}),
         File("best_lstm", "keras"),
         NamedFile("metadata_old", "txt", {"metadata"}),
         NamedFile("Model_Metadata", "json", {"metadata"}),
         File("final_lstm", "keras") >> }

ListOutcomes == {[ok |-> FALSE, files |-> <<>>]} \cup {[ok |-> TRUE, files |-> l] : l \in RepoListings}

ListCall(r) == [op |-> "list_repo_files", file |-> NoFile, ok |-> r.ok, files |-> r.files]

Download(file, ok) == Call("hf_hub_download", file, ok)

\* next((f for f in files if f.endswith('.keras')), None)
IsKerasFile(f) == f.ext = "keras"

\* 'scaler' in f.lower() and f.endswith('.pkl')
IsScalerFile(f) == "scaler" \in f.words /\ f.ext = "pkl"

\* 'metadata' in f.lower() and f.endswith('.json')
IsMetadataFile(f) == "metadata" \in f.words /\ f.ext = "json"

RECURSIVE FirstKeras(_)
FirstKeras(files) ==
    IF files = <<>> THEN NoFile
    ELSE IF IsKerasFile(Head(files)) THEN Head(files) ELSE FirstKeras(Tail(files))

RECURSIVE FirstScaler(_)
FirstScaler(files) ==
    IF files = <<>> THEN NoFile
    ELSE IF IsScalerFile(Head(files)) THEN Head(files) ELSE FirstScaler(Tail(files))

RECURSIVE FirstMetadata(_)
FirstMetadata(files) ==
    IF files = <<>> THEN NoFile
    ELSE IF IsMetadataFile(Head(files)) THEN Head(files) ELSE FirstMetadata(Tail(files))

\* the functions a loaded network may compute: a constant 0.5, a constant
\* 1.25, or one that follows the last timestep of a single-feature input
\* (and returns -0.5 on a 6-feature input, whose normalized numbers are not
\* represented)
Weights == {"half", "high", "echo"}

NoModel == [kind |-> "none", channels |-> 0, scaler |-> "none", metadata |-> FALSE,
            weights |-> "none"]

\* lines 40-61: the first listing (only printed) and the locals
LM_ListFiles ==
    /\ program = "B" /\ pc = "lm_list"
    /\ \E r \in ListOutcomes : calls' = Append(calls, ListCall(r))
    /\ model_path' = NoFile /\ scaler_path' = NoFile /\ metadata_path' = NoFile
    /\ last_error' = NoError
    /\ cand_idx' = 1
    /\ pc' = "lm_pytorch"
    /\ UNCHANGED <<argVars, prices, stdout, exit_status, model, err, predictVars>>

\* variant: the loop has no break and runs through every candidate
AfterPyTorchNoBreak(i, ok) ==
    IF i < Len(possible_filenames) THEN "lm_pytorch"
    ELSE IF ok THEN "lm_handle" ELSE "lm_keras"

\* where the PyTorch loop goes after the download of candidate i
AfterPyTorch(i, ok) ==
    IF ok THEN "lm_handle"
    ELSE IF i < Len(possible_filenames) THEN "lm_pytorch" ELSE "lm_keras"

\* lines 63-70: one iteration of the loop over possible_filenames
LM_TryPyTorch ==
    /\ program = "B" /\ pc = "lm_pytorch"
    /\ \E ok \in BOOLEAN :
        LET f == possible_filenames[cand_idx] IN
        /\ calls' = Append(calls, Download(f, ok))
        /\ model_path' = IF ok THEN f ELSE model_path
        /\ last_error' = IF ok THEN last_error ELSE DownloadError(f)
        /\ pc' = AfterPyTorch(cand_idx, ok)
        /\ cand_idx' = IF AfterPyTorch(cand_idx, ok) = "lm_pytorch" THEN cand_idx + 1 ELSE 1
    /\ UNCHANGED <<argVars, prices, stdout, exit_status, scaler_path, metadata_path,
                   model, err, predictVars>>

\* variant: a resolved Keras file goes straight to loading
AfterKerasNoCompanions(i, ok) ==
    IF ok THEN "lm_handle"
    ELSE IF i < Len(keras_files) THEN "lm_keras" ELSE "lm_scan"

\* where the Keras loop goes after the download of candidate i
AfterKeras(i, ok) ==
    IF ok THEN "lm_companions"
    ELSE IF i < Len(keras_files) THEN "lm_keras" ELSE "lm_scan"

\* lines 80-87: one iteration of the loop over keras_files
LM_TryKeras ==
    /\ program = "B" /\ pc = "lm_keras"
    /\ \E ok \in BOOLEAN :
        LET f == keras_files[cand_idx] IN
        /\ calls' = Append(calls, Download(f, ok))
        /\ model_path' = IF ok THEN f ELSE model_path
        /\ last_error' = IF ok THEN last_error ELSE DownloadError(f)
        /\ pc' = AfterKeras(cand_idx, ok)
        /\ cand_idx' = IF AfterKeras(cand_idx, ok) = "lm_keras" THEN cand_idx + 1 ELSE 1
    /\ UNCHANGED <<argVars, prices, stdout, exit_status, scaler_path, metadata_path,
                   model, err, predictVars>>

\* lines 90-98: scan the listing for any .keras file; a failure of the listing
\* or of the download is swallowed by the bare except and not recorded
LM_ScanKeras ==
    /\ program = "B" /\ pc = "lm_scan"
    /\ \E r \in ListOutcomes, ok \in BOOLEAN :
        LET f == IF r.ok THEN FirstKeras(r.files) ELSE NoFile IN
        /\ (f = NoFile => ok)     \* no download is made: nothing to fail
        /\ calls' = IF f = NoFile THEN Append(calls, ListCall(r))
                    ELSE calls \o << ListCall(r), Download(f, ok) >>
        /\ model_path' = IF f # NoFile /\ ok THEN f ELSE model_path
        /\ pc' = IF f # NoFile /\ ok THEN "lm_companions" ELSE "lm_notfound"
    /\ UNCHANGED <<argVars, prices, stdout, exit_status, cand_idx, scaler_path,
                   metadata_path, last_error, model, err, predictVars>>

\* lines 101-114: look for scaler and metadata files (reached only inside the
\* `if model_path is None` block of line 73, with a model file resolved)
LM_Companions ==
    /\ program = "B" /\ pc = "lm_companions"
    /\ \E r \in ListOutcomes, ok1 \in BOOLEAN, ok2 \in BOOLEAN :
        LET sf == IF r.ok THEN FirstScaler(r.files) ELSE NoFile
            mf == IF r.ok THEN FirstMetadata(r.files) ELSE NoFile
            try_meta == mf # NoFile /\ (sf = NoFile \/ ok1)
        IN
        /\ (sf = NoFile => ok1)
        /\ (~try_meta => ok2)
        /\ calls' = calls \o << ListCall(r) >>
                          \o (IF sf # NoFile THEN << Download(sf, ok1) >> ELSE <<>>)
                          \o (IF try_meta THEN << Download(mf, ok2) >> ELSE <<>>)
        /\ scaler_path' = IF sf # NoFile /\ ok1 THEN sf ELSE scaler_path
        /\ metadata_path' = IF try_meta /\ ok2 THEN mf ELSE metadata_path
    /\ pc' = "lm_handle"
    /\ UNCHANGED <<argVars, prices, stdout, exit_status, cand_idx, model_path,
                   last_error, model, err, predictVars>>

\* variant: the message leaves out the underlying error
NotFoundMsgNoCause(r, e) ==
    IF r.ok
    THEN Msg("Model file not found. Available files", TRUE, r.files, NoError)
    ELSE Msg("Model file not found. Repository may not exist or is private", FALSE, <<>>, NoError)

\* the message of lines 120 / 122
NotFoundMsg(r, e) ==
    IF r.ok
    THEN Msg("Model file not found. Available files", TRUE, r.files, e)
    ELSE Msg("Model file not found. Repository may not exist or is private", FALSE, <<>>, e)

\* lines 116-122: no model file was resolved.  (The outer handler of lines
\* 159-160 has nothing to catch: every call above sits in its own try block.)
LM_NotFound ==
    /\ program = "B" /\ pc = "lm_notfound"
    /\ \E r \in ListOutcomes :
        /\ calls' = Append(calls, ListCall(r))
        /\ err' = NotFoundMsg(r, last_error)
    /\ model' = NoModel
    /\ pc' = "check_err"
    /\ UNCHANGED <<argVars, prices, stdout, exit_status, cand_idx, model_path,
                   scaler_path, metadata_path, last_error, predictVars>>

\* the scaler of the model handle: unpickled ("loaded") or None ("none")
ScalerKinds == {"loaded"}

\* lines 125-157: a .keras model file
LM_HandleKeras ==
    /\ program = "B" /\ pc = "lm_handle"
    /\ IsKerasFile(model_path)
    /\ IF ~HAS_TF
       THEN /\ err' = PlainMsg("Keras model detected but TensorFlow is not installed")
            /\ model' = NoModel
            /\ UNCHANGED calls
       ELSE \E ok \in BOOLEAN, ch \in {1, 6}, meta_ok \in BOOLEAN,
               sc \in ScalerKinds \cup {"none"}, w \in Weights :
            /\ (~ok => ch = 1 /\ meta_ok /\ sc = "none" /\ w = "half")
            /\ (metadata_path = NoFile => meta_ok)
            /\ (scaler_path = NoFile => sc = "none")
            /\ calls' = Append(calls, Call("keras.load_model", model_path, ok))
            /\ IF ok
               THEN /\ model' = [kind |-> "keras", channels |-> ch, scaler |-> sc,
                                 metadata |-> (metadata_path # NoFile /\ meta_ok),
                                 weights |-> w]
                    /\ err' = PlainMsg(None)
               ELSE /\ model' = NoModel
                    /\ err' = PlainMsg("Failed to load Keras model")
    /\ pc' = "check_err"
    /\ UNCHANGED <<argVars, prices, stdout, exit_status, cand_idx, model_path,
                   scaler_path, metadata_path, last_error, predictVars>>

\* lines 162-177: a PyTorch checkpoint
LM_HandlePyTorch ==
    /\ program = "B" /\ pc = "lm_handle"
    /\ ~IsKerasFile(model_path)
    /\ \E ok \in BOOLEAN, w \in Weights :
        /\ (~ok => w = "half")
        /\ calls' = Append(calls, Call("torch.load", model_path, ok))
        /\ IF ok
           THEN /\ model' = [kind |-> "torch", channels |-> 1, scaler |-> "none",
                             metadata |-> FALSE, weights |-> w]
                /\ err' = PlainMsg(None)
           ELSE /\ model' = NoModel
                /\ err' = PlainMsg("Architecture mismatch or load error")
    /\ pc' = "check_err"
    /\ UNCHANGED <<argVars, prices, stdout, exit_status, cand_idx, model_path,
                   scaler_path, metadata_path, last_error, predictVars>>

\* lines 320-323: model, err = load_model(); if err: ...
B_CheckErr ==
    /\ program = "B" /\ pc = "check_err"
    /\ IF err.text # None
       THEN FailWith(err)
       ELSE /\ pc' = "predict"
            /\ UNCHANGED <<stdout, exit_status>>
    /\ UNCHANGED <<argVars, prices, calls, loadVars, predictVars>>

-----------------------------------------------------------------------------
(* predict *)

\* prices[-SEQUENCE_LENGTH:]
LastWindow(ps) ==
    IF Len(ps) > SEQUENCE_LENGTH
    THEN SubSeq(ps, Len(ps) - SEQUENCE_LENGTH + 1, Len(ps))
    ELSE ps

RECURSIVE Sum(_)
Sum(seq) == IF seq = <<>> THEN 0 ELSE Head(seq) + Sum(Tail(seq))

SeqMin(seq) == CHOOSE x \in {seq[i] : i \in 1..Len(seq)} : \A i \in 1..Len(seq) : x <= seq[i]

SeqMax(seq) == CHOOSE x \in {seq[i] : i \in 1..Len(seq)} : \A i \in 1..Len(seq) : x >= seq[i]

\* scale = max_val - min_val if max_val != min_val else 1.0
ScaleOf(seq) == IF SeqMax(seq) # SeqMin(seq) THEN SeqMax(seq) - SeqMin(seq) ELSE 1

\* normalized_seq = (current_sequence - min_val) / scale
Normalize(seq, mn, sc) == [i \in 1..Len(seq) |-> Frac(seq[i] - mn, sc)]

\* real_pred = pred_val * scale + min_val
Denormalize(pred_val, sc, mn) == Frac(pred_val.n * sc + mn * pred_val.d, pred_val.d)

\* variant: the new step is appended without dropping the oldest one
SlideNoDrop(tensor, new_step) == Append(tensor, new_step)

\* cat((input_tensor[:, 1:, :], new_step_norm), dim=1)
Slide(tensor, new_step) == Append(Tail(tensor), new_step)

\* variant: the denormalized prediction is fed back into the window
NewStepDenorm(pred_val, real_pred) == real_pred

\* the value the single-feature paths append to the window: pred_val
NewStepNorm(pred_val, real_pred) == pred_val

\* model(input_tensor) / keras_model.predict(input_tensor): the normalized
\* value the network returns for a window
Forward(m, tensor) ==
    CASE m.weights = "half" -> Frac(1, 2)
      [] m.weights = "high" -> Frac(5, 4)
      [] m.weights = "echo" ->
            IF m.channels = 6 THEN Frac(-1, 2) ELSE tensor[Len(tensor)]

\* an inference call returns the network's value or raises
InferenceOutcomes(m, tensor) ==
    {[raised |-> TRUE, out |-> Frac(0, 1)], [raised |-> FALSE, out |-> Forward(m, tensor)]}

IsKerasModel(m) == HAS_TF /\ m.kind = "keras"

IsSixChannel(m) == IsKerasModel(m) /\ m.channels = 6

\* A real number of the 6-feature path, exactly: (c + SUM_k p[k] * P_k) / d,
\* where P_k is the k-th prediction of the run (predictions[k]) and p maps the
\* indices k that occur to their non-zero integer coefficients.
Lin(c, p, d) == [c |-> c, p |-> p, d |-> d]

\* a price of the input series
Num(x) == Lin(x, <<>>, 1)

\* the k-th prediction, as an element of the window
Pred(k) == Lin(0, k :> 1, 1)

Coef(f, k) == IF k \in DOMAIN f.p THEN f.p[k] ELSE 0

\* a - b, for forms of denominator 1
LinSub(a, b) ==
    LET ks == {k \in DOMAIN a.p \cup DOMAIN b.p : Coef(a, k) # Coef(b, k)}
    IN  Lin(a.c - b.c, [k \in ks |-> Coef(a, k) - Coef(b, k)], 1)

\* the predictions that occur in the first i forms of seq
RECURSIVE AtomsTo(_, _)
AtomsTo(seq, i) == IF i = 0 THEN {} ELSE DOMAIN seq[i].p \cup AtomsTo(seq, i - 1)

\* the sum of the coefficients of P_k in the first i forms of seq
RECURSIVE CoefSumTo(_, _, _)
CoefSumTo(seq, k, i) == IF i = 0 THEN 0 ELSE Coef(seq[i], k) + CoefSumTo(seq, k, i - 1)

\* the sum of the constants of the first i forms of seq
RECURSIVE ConstSumTo(_, _)
ConstSumTo(seq, i) == IF i = 0 THEN 0 ELSE seq[i].c + ConstSumTo(seq, i - 1)

\* the sum of a sequence of forms of denominator 1
LinSum(seq) ==
    LET tot == [k \in AtomsTo(seq, Len(seq)) |-> CoefSumTo(seq, k, Len(seq))]
    IN  Lin(ConstSumTo(seq, Len(seq)), [k \in {j \in DOMAIN tot : tot[j] # 0} |-> tot[k]], 1)

\* np.mean(seq): the sum over the number of elements, not rounded
MeanOf(seq) == [LinSum(seq) EXCEPT !.d = Len(seq)]

\* np.std(seq), the population standard deviation of a window whose elements
\* are prices and predictions:
\*   sqrt(n * (sumsq + SUM_{k \in preds} P_k^2) - sum^2) / n
\* with n the length, sum the sum of the elements, sumsq the sum of the squared
\* prices and preds the predictions in the window.  The root is not taken: a
\* square root has in general no fraction to stand for it.
StdOf(seq) ==
    [n     |-> Len(seq),
     sum   |-> LinSum(seq),
     sumsq |-> Sum([i \in 1..Len(seq) |-> IF DOMAIN seq[i].p = {} THEN seq[i].c * seq[i].c ELSE 0]),
     preds |-> AtomsTo(seq, Len(seq))]

\* variant: a left-truncated mean at the start of the series
MovingAverageTruncated(seq, i, n) ==
    LET lo == IF i - n + 1 > 1 THEN i - n + 1 ELSE 1
    IN  MeanOf(SubSeq(seq, lo, i))

\* np.mean(current_sequence[max(0, i-(n-1)):i+1]) if i >= n-1 else price
\* (i is 1-based here: the code's i >= n-1 is i >= n)
MovingAverage(seq, i, n) ==
    IF i >= n
    THEN LET lo == IF i - n + 1 > 1 THEN i - n + 1 ELSE 1
         IN  MeanOf(SubSeq(seq, lo, i))
    ELSE seq[i]

\* [price, price_change, ma5, ma10, ma20, volume_sim] for every timestep
Features(seq) ==
    [i \in 1..Len(seq) |->
        [price        |-> seq[i],
         price_change |-> IF i > 1 THEN LinSub(seq[i], seq[i - 1]) ELSE Num(0),
         ma5          |-> MovingAverage(seq, i, 5),
         ma10         |-> MovingAverage(seq, i, 10),
         ma20         |-> MovingAverage(seq, i, 20),
         volume_sim   |-> Num(1)]]

\* lines 208-216, 246-252: scaler.transform when a scaler is loaded, and
\* standardization when there is none or when transform raises.  Only the
\* choice is recorded: the network's value is drawn by Forward, so the
\* normalized numbers themselves are not represented.
NormalizationOf(m, transform_ok) ==
    IF m.scaler = "loaded" /\ transform_ok THEN "scaler" ELSE "standardize"

\* real_pred = pred_val * std_price + mean_price, as that term
Denormalize6(pred_val, seq) ==
    [pred_val |-> pred_val, std_price |-> StdOf(seq), mean_price |-> MeanOf(seq)]

Inference(tensor, out) == [len |-> Len(tensor), out |-> out]

\* lines 180-218, 257-263, 276-286: everything before the loop
P_Init ==
    /\ program = "B" /\ pc = "predict"
    /\ LET w == LastWindow(prices) IN
       IF IsSixChannel(model)
       THEN /\ current_sequence' = [i \in 1..Len(w) |-> Num(w[i])]
            /\ input_tensor' = Features([i \in 1..Len(w) |-> Num(w[i])])
            /\ \E transform_ok \in BOOLEAN :
                   normalization' = NormalizationOf(model, transform_ok)
            /\ UNCHANGED <<min_val, scale>>
       ELSE /\ current_sequence' = w
            /\ min_val' = SeqMin(w)
            /\ scale' = ScaleOf(w)
            /\ input_tensor' = Normalize(w, SeqMin(w), ScaleOf(w))
            /\ normalization' = "minmax"
    /\ predictions' = <<>>
    /\ step_i' = 0
    /\ pc' = "predict_loop"
    /\ UNCHANGED <<argVars, prices, stdout, exit_status, calls, loadVars, inferences>>

\* an exception inside predict, caught by main (lines 331-333)
P_Raise == FailWith(PlainMsg("Prediction error"))

\* lines 289-300: one iteration of the PyTorch loop
P_StepTorch ==
    /\ program = "B" /\ pc = "predict_loop" /\ step_i < args_steps
    /\ ~IsKerasModel(model)
    /\ \E r \in InferenceOutcomes(model, input_tensor) :
        /\ inferences' = Append(inferences, Inference(input_tensor, r.out))
        /\ IF r.raised
           THEN /\ P_Raise
                /\ UNCHANGED <<predictions, input_tensor, step_i>>
           ELSE LET real_pred == Denormalize(r.out, scale, min_val)
                IN  /\ predictions' = Append(predictions, real_pred)
                    /\ input_tensor' = Slide(input_tensor, NewStepNorm(r.out, real_pred))
                    /\ step_i' = step_i + 1
                    /\ UNCHANGED <<pc, stdout, exit_status>>
    /\ UNCHANGED <<argVars, prices, calls, loadVars, current_sequence, min_val, scale,
                   normalization>>

\* lines 265-273: one iteration of the single-feature Keras loop
P_StepKeras1 ==
    /\ program = "B" /\ pc = "predict_loop" /\ step_i < args_steps
    /\ IsKerasModel(model) /\ ~IsSixChannel(model)
    /\ \E r \in InferenceOutcomes(model, input_tensor) :
        /\ inferences' = Append(inferences, Inference(input_tensor, r.out))
        /\ IF r.raised
           THEN /\ P_Raise
                /\ UNCHANGED <<predictions, input_tensor, step_i>>
           ELSE LET real_pred == Denormalize(r.out, scale, min_val)
                IN  /\ predictions' = Append(predictions, real_pred)
                    /\ input_tensor' = Slide(input_tensor, NewStepNorm(r.out, real_pred))
                    /\ step_i' = step_i + 1
                    /\ UNCHANGED <<pc, stdout, exit_status>>
    /\ UNCHANGED <<argVars, prices, calls, loadVars, current_sequence, min_val, scale,
                   normalization>>

\* lines 220-254: one iteration of the 6-feature Keras loop
P_StepKeras6 ==
    /\ program = "B" /\ pc = "predict_loop" /\ step_i < args_steps
    /\ IsSixChannel(model)
    /\ \E r \in InferenceOutcomes(model, input_tensor) :
        /\ inferences' = Append(inferences, Inference(input_tensor, r.out))
        /\ IF r.raised
           THEN /\ P_Raise
                /\ UNCHANGED <<predictions, input_tensor, step_i, current_sequence,
                               normalization>>
           ELSE LET real_pred == Denormalize6(r.out, current_sequence)
                    next_seq == Slide(current_sequence, Pred(step_i + 1))
                IN  /\ predictions' = Append(predictions, real_pred)
                    /\ current_sequence' = next_seq
                    /\ input_tensor' = Features(next_seq)
                    /\ \E transform_ok \in BOOLEAN :
                           normalization' = NormalizationOf(model, transform_ok)
                    /\ step_i' = step_i + 1
                    /\ UNCHANGED <<pc, stdout, exit_status>>
    /\ UNCHANGED <<argVars, prices, calls, loadVars, min_val, scale>>

\* lines 302, 327-330: predict returns and main prints the result
B_Emit ==
    /\ program = "B" /\ pc = "predict_loop" /\ step_i >= args_steps
    /\ stdout' = Append(stdout, [prediction |-> predictions,
                                 last_price |-> prices[Len(prices)]])
    /\ exit_status' = 0
    /\ pc' = "exit"
    /\ UNCHANGED <<argVars, prices, calls, loadVars, predictVars>>

-----------------------------------------------------------------------------
(* The runs *)

Init ==
    /\ program \in {"A", "B"}
    /\ args_prices \in PriceArgs
    /\ args_steps \in StepArgs(program)
    /\ HAS_TF \in (IF program = "B" THEN BOOLEAN ELSE {FALSE})
    /\ pc = "parse"
    /\ prices = <<>>
    /\ stdout = <<>>
    /\ exit_status = 0
    /\ calls = <<>>
    /\ cand_idx = 1
    /\ model_path = NoFile /\ scaler_path = NoFile /\ metadata_path = NoFile
    /\ last_error = NoError
    /\ model = NoModel
    /\ err = PlainMsg(None)
    /\ current_sequence = <<>>
    /\ input_tensor = <<>>
    /\ min_val = 0
    /\ scale = 1
    /\ predictions = <<>>
    /\ step_i = 0
    /\ inferences = <<>>
    /\ normalization = None

Next ==
    \/ A_Parse \/ A_LoadModel \/ A_Predict
    \/ B_Parse \/ B_CheckLength
    \/ LM_ListFiles \/ LM_TryPyTorch \/ LM_TryKeras \/ LM_ScanKeras
    \/ LM_Companions \/ LM_NotFound \/ LM_HandleKeras \/ LM_HandlePyTorch
    \/ B_CheckErr
    \/ P_Init \/ P_StepTorch \/ P_StepKeras1 \/ P_StepKeras6 \/ B_Emit

Spec == Init /\ [][Next]_vars

-----------------------------------------------------------------------------
(* predict() on its own: called on every valid series, step count and handle *)

ModelHandles ==
    {[kind |-> "torch", channels |-> 1, scaler |-> "none", metadata |-> FALSE,
      weights |-> w] : w \in Weights}
    \cup {[kind |-> "keras", channels |-> ch, scaler |-> sc, metadata |-> FALSE,
           weights |-> w] : ch \in {1, 6}, sc \in ScalerKinds \cup {"none"}, w \in Weights}

InitPredict ==
    /\ program = "B"
    /\ args_prices \in ValidArgs(Shapes)
    /\ args_steps \in StepArgs("B")
    /\ model \in ModelHandles
    /\ HAS_TF = (model.kind = "keras")
    /\ pc = "predict"
    /\ prices = ParsePrices(args_prices)
    /\ stdout = <<>>
    /\ exit_status = 0
    /\ calls = <<>>
    /\ cand_idx = 1
    /\ model_path = NoFile /\ scaler_path = NoFile /\ metadata_path = NoFile
    /\ last_error = NoError
    /\ err = PlainMsg(None)
    /\ current_sequence = <<>>
    /\ input_tensor = <<>>
    /\ min_val = 0
    /\ scale = 1
    /\ predictions = <<>>
    /\ step_i = 0
    /\ inferences = <<>>
    /\ normalization = None

NextPredict == P_Init \/ P_StepTorch \/ P_StepKeras1 \/ P_StepKeras6 \/ B_Emit

SpecPredict == InitPredict /\ [][NextPredict]_vars

-----------------------------------------------------------------------------
(* Properties *)

IsErrorObject(o) == DOMAIN o = {"error"}

IsSuccessObject(o) == "prediction" \in DOMAIN o /\ "error" \notin DOMAIN o

Succeeded == pc = "exit" /\ exit_status = 0

InPredict == program = "B" /\ (pc = "predict_loop" \/ (pc = "exit" /\ inferences # <<>>))

\* C1: for every model kind, every series of at least 60 prices and every
\* steps >= 1, predict returns exactly `steps` values after exactly `steps`
\* inference calls, and the window given to every inference call (and the one
\* held for the next call) has exactly 60 timesteps.
C1_StepsAndWindow ==
    program = "B" =>
        /\ \A k \in 1..Len(inferences) : inferences[k].len = SEQUENCE_LENGTH
        /\ (pc = "predict_loop" => Len(input_tensor) = SEQUENCE_LENGTH)
        /\ (Succeeded /\ args_steps >= 1 =>
                /\ Len(stdout[1].prediction) = args_steps
                /\ Len(inferences) = args_steps)

C1_Witness ==
    /\ program = "B" /\ Succeeded
    /\ IsSixChannel(model)
    /\ Len(prices) > SEQUENCE_LENGTH
    /\ args_steps = DEFAULT_STEPS_B
    /\ Len(stdout[1].prediction) = DEFAULT_STEPS_B
    /\ Len(inferences) = DEFAULT_STEPS_B

\* C2: a run that has not ended has printed nothing; a run that has ended has
\* printed exactly one JSON object, which is either an object with the single
\* key "error" together with exit status 1, or a success object (with
\* "prediction", without "error") together with exit status 0; and each
\* failure (bad price token, too few prices, load_model error, exception in
\* prediction) ends with the error object and status 1.
C2_OneObject ==
    /\ (pc # "exit" => stdout = <<>>)
    /\ (pc = "exit" =>
          /\ Len(stdout) = 1
          /\ \/ exit_status = 1 /\ IsErrorObject(stdout[1])
             \/ exit_status = 0 /\ IsSuccessObject(stdout[1])
          /\ (args_prices \in MalformedArgs => exit_status = 1)
          /\ (program = "B" /\ args_prices \in ShortArgs => exit_status = 1)
          /\ (program = "B" /\ err.text # None => exit_status = 1)
          /\ ((\E c \in 1..Len(calls) : calls[c].op = "from_pretrained" /\ ~calls[c].ok)
                  => exit_status = 1)
          /\ (program = "B" /\ Len(inferences) > Len(predictions) => exit_status = 1))

\* an exception in the third inference call, after two predictions were made
C2_Witness ==
    /\ program = "B" /\ pc = "exit" /\ exit_status = 1
    /\ Len(predictions) = 2 /\ Len(inferences) = 3
    /\ stdout = << ErrorObj(PlainMsg("Prediction error")) >>

\* C3: when a token of --prices is not a float, the run makes no call to the
\* hub or to a model loader at any point, never leaves parsing except to exit,
\* and ends with the invalid-format error object and status 1 (both programs).
C3_NoLoadOnMalformed ==
    args_prices \in MalformedArgs =>
        /\ calls = <<>>
        /\ inferences = <<>>
        /\ pc \in {"parse", "exit"}
        /\ (pc = "exit" =>
              /\ stdout = << ErrorObj(PlainMsg("Invalid price format")) >>
              /\ exit_status = 1)

\* a series long enough for the LSTM whose last token is a lone "-"
C3_Witness ==
    /\ program = "B" /\ pc = "exit"
    /\ args_prices = Join(Corrupt(Series("ramp", SEQUENCE_LENGTH), "lone_minus"))
    /\ calls = <<>>
    /\ exit_status = 1

\* C4: program B, on a well-formed series of fewer than 60 prices, for every
\* --steps value (the default included), ends with the too-few-prices error
\* object and status 1, and never loads a model nor runs an inference.
C4_RejectsShort ==
    program = "B" /\ args_prices \in ShortArgs =>
        /\ calls = <<>>
        /\ inferences = <<>>
        /\ pc \in {"parse", "check_len", "exit"}
        /\ (pc = "exit" =>
              /\ stdout = << ErrorObj(PlainMsg("Need at least SEQUENCE_LENGTH price points")) >>
              /\ exit_status = 1)

C4_Witness ==
    /\ program = "B" /\ pc = "exit" /\ exit_status = 1
    /\ Len(prices) = SEQUENCE_LENGTH - 1
    /\ args_steps = DEFAULT_STEPS_B
    /\ calls = <<>>

\* the last 60 prices of the input, read off the input alone
InitialWindow == [i \in 1..SEQUENCE_LENGTH |-> prices[Len(prices) - SEQUENCE_LENGTH + i]]

SetMin(S) == CHOOSE x \in S : \A y \in S : x <= y

SetMax(S) == CHOOSE x \in S : \A y \in S : x >= y

\* C5: in the single-feature paths, min and scale are those of the initial
\* last-60 window throughout the loop; prediction k equals output k * scale +
\* min with those values; the window fed to the next call is the initial
\* normalized window shifted left with the normalized outputs appended; and a
\* network that always returns 0.5 yields identical predictions 0.5*scale+min.
C5_FixedNormalization ==
    InPredict /\ ~IsSixChannel(model) =>
        LET n  == Len(predictions)
            w  == InitialWindow
            vs == {w[i] : i \in 1..SEQUENCE_LENGTH}
            mn == SetMin(vs)
            sc == IF SetMax(vs) = mn THEN 1 ELSE SetMax(vs) - mn
        IN
        /\ min_val = mn
        /\ scale = sc
        /\ \A k \in 1..n :
              predictions[k].n * inferences[k].out.d
                  = (inferences[k].out.n * sc + mn * inferences[k].out.d) * predictions[k].d
        /\ \A i \in 1..SEQUENCE_LENGTH :
              IF i + n <= SEQUENCE_LENGTH
              THEN FracEq(input_tensor[i], Frac(w[i + n] - mn, sc))
              ELSE input_tensor[i] = inferences[i + n - SEQUENCE_LENGTH].out
        /\ (model.weights = "half" =>
              \A k \in 1..n : FracEq(predictions[k], Frac(sc + 2 * mn, 2)))

\* prices 1..60 with the 0.5 stub: every prediction is 0.5*59+1 = 30.5
C5_Witness ==
    /\ program = "B" /\ Succeeded
    /\ model.kind = "torch" /\ model.weights = "half"
    /\ args_prices = Join(Series("ramp", SEQUENCE_LENGTH))
    /\ args_steps = DEFAULT_STEPS_B
    /\ stdout[1].prediction = [k \in 1..DEFAULT_STEPS_B |-> Frac(61, 2)]

\* the k-th smallest sample of a column, by counting
OrderStat(col, k) ==
    CHOOSE v \in {col[i] : i \in 1..Len(col)} :
        /\ Cardinality({i \in 1..Len(col) : col[i] < v}) < k
        /\ Cardinality({i \in 1..Len(col) : col[i] <= v}) >= k

\* C6: on success program A prints lower_bound, prediction and upper_bound of
\* length `steps` each; at every position they are the 10th, 50th and 90th
\* percentile (linear interpolation between order statistics) of the 20
\* samples, and lower_bound <= prediction <= upper_bound.
C6_Quantiles ==
    program = "A" /\ Succeeded =>
        LET o == stdout[1]
            forecast == inferences[1]
        IN
        /\ DOMAIN o = {"prediction", "lower_bound", "upper_bound"}
        /\ Len(o.prediction) = args_steps
        /\ Len(o.lower_bound) = args_steps
        /\ Len(o.upper_bound) = args_steps
        /\ Len(forecast) = NUM_SAMPLES
        /\ \A j \in 1..args_steps :
              LET col == [k \in 1..NUM_SAMPLES |-> forecast[k][j]] IN
              /\ FracLe(o.lower_bound[j], o.prediction[j])
              /\ FracLe(o.prediction[j], o.upper_bound[j])
              /\ FracEq(o.lower_bound[j], Frac(OrderStat(col, 2) + 9 * OrderStat(col, 3), 10))
              /\ FracEq(o.prediction[j], Frac(OrderStat(col, 10) + OrderStat(col, 11), 2))
              /\ FracEq(o.upper_bound[j], Frac(9 * OrderStat(col, 18) + OrderStat(col, 19), 10))

C6_Witness ==
    /\ program = "A" /\ Succeeded
    /\ args_steps = DEFAULT_STEPS_A
    /\ Len(stdout[1].prediction) = DEFAULT_STEPS_A
    /\ \E j \in 1..DEFAULT_STEPS_A :
          /\ ~FracLe(stdout[1].prediction[j], stdout[1].lower_bound[j])
          /\ ~FracLe(stdout[1].upper_bound[j], stdout[1].prediction[j])

-----------------------------------------------------------------------------
(* load_model: properties *)

ModelExts == {"pth", "bin", "pt", "keras"}

IsModelDownload(c) == c.op = "hf_hub_download" /\ c.file.ext \in ModelExts

IsListing(c) == c.op = "list_repo_files"

\* the download attempts made for a model file, in order
ModelDownloads == SelectSeq(calls, IsModelDownload)

\* a listing was requested after the model file was downloaded
CompanionSearchDone ==
    \E i \in 1..Len(calls), j \in 1..Len(calls) :
        /\ i < j
        /\ IsModelDownload(calls[i]) /\ calls[i].ok /\ calls[i].file = model_path
        /\ IsListing(calls[j])

Resolved == program = "B" /\ pc = "lm_handle"

\* C7 as stated: whenever load_model has resolved a model file, of either
\* format, it has then requested the remote listing to look for the companion
\* scaler and metadata files.
C7_AnyFormat == Resolved => CompanionSearchDone

\* C7 amended: only a Keras model file (resolved after every PyTorch candidate
\* failed) is followed by the companion search: one listing, then a download
\* attempt for the first scaler file (name contains "scaler", ends in .pkl) and,
\* unless that download raised, for the first metadata file (contains
\* "metadata", ends in .json), failures being swallowed.  After a PyTorch file
\* is resolved nothing is listed or downloaded and both companion paths stay
\* unset.
C7_KerasOnly ==
    Resolved =>
        /\ model_path # NoFile
        /\ IsKerasFile(model_path) =>
              /\ CompanionSearchDone
              /\ \E j \in 1..Len(calls) :
                    LET has_sc == \E k \in 1..Len(calls[j].files) : IsScalerFile(calls[j].files[k])
                        has_md == \E k \in 1..Len(calls[j].files) : IsMetadataFile(calls[j].files[k])
                    IN
                    /\ IsListing(calls[j])
                    /\ j > 1 /\ IsModelDownload(calls[j - 1]) /\ calls[j - 1].ok
                    /\ \A k \in (j + 1)..Len(calls) :
                          calls[k].op = "hf_hub_download" /\ ~IsModelDownload(calls[k])
                    /\ (calls[j].ok /\ has_sc =>
                          /\ Len(calls) > j /\ IsScalerFile(calls[j + 1].file)
                          /\ (scaler_path # NoFile <=> calls[j + 1].ok)
                          /\ (calls[j + 1].ok /\ has_md =>
                                /\ Len(calls) = j + 2 /\ IsMetadataFile(calls[j + 2].file)
                                /\ (metadata_path # NoFile <=> calls[j + 2].ok))
                          /\ (~calls[j + 1].ok => Len(calls) = j + 1 /\ metadata_path = NoFile))
                    /\ (~calls[j].ok => Len(calls) = j /\ scaler_path = NoFile
                                         /\ metadata_path = NoFile)
        /\ ~IsKerasFile(model_path) =>
              /\ ~CompanionSearchDone
              /\ scaler_path = NoFile /\ metadata_path = NoFile
              /\ calls[Len(calls)] = Download(model_path, TRUE)

C7_Witness ==
    /\ Resolved
    /\ model_path = keras_files[1]
    /\ scaler_path = NamedFile("Feature_Scaler", "pkl", {"scaler"})
    /\ metadata_path = NamedFile("Model_Metadata", "json", {"metadata"})

\* C8: the model-file downloads follow the order possible_filenames, then
\* keras_files, then the first .keras file of the listing; every attempt but
\* the last one made has failed (nothing is tried after a success); the Keras
\* loop runs only after all PyTorch candidates failed and the listing scan
\* only after all Keras candidates failed too; and model_path is the one
\* candidate whose download succeeded (None while none has).
C8_FirstSuccessWins ==
    program = "B" =>
        LET d     == ModelDownloads
            order == possible_filenames \o keras_files
        IN
        /\ Len(d) <= Len(order) + 1
        /\ \A k \in 1..Len(d) :
              /\ (k <= Len(order) => d[k].file = order[k])
              /\ (k = Len(order) + 1 => IsKerasFile(d[k].file))
              /\ (k < Len(d) => ~d[k].ok)
        /\ model_path = (IF d # <<>> /\ d[Len(d)].ok THEN d[Len(d)].file ELSE NoFile)
        /\ (pc = "lm_pytorch" => Len(d) = cand_idx - 1 /\ model_path = NoFile)
        /\ (pc = "lm_keras" =>
                Len(d) = Len(possible_filenames) + cand_idx - 1 /\ model_path = NoFile)
        /\ (pc = "lm_scan" => Len(d) = Len(order) /\ model_path = NoFile)
        /\ (pc = "lm_notfound" => Len(d) >= Len(order) /\ model_path = NoFile)

\* the second Keras candidate is used after eight failed downloads
C8_Witness ==
    /\ Resolved
    /\ model_path = keras_files[2]
    /\ Len(ModelDownloads) = Len(possible_filenames) + 2

NotFoundTexts == {"Model file not found. Available files",
                  "Model file not found. Repository may not exist or is private"}

NotFound == program = "B" /\ pc = "check_err" /\ err.text \in NotFoundTexts

FailedDownloads == SelectSeq(calls, LAMBDA c : c.op = "hf_hub_download" /\ ~c.ok)

\* the error of the last download that failed during the search
LastDownloadError == DownloadError(FailedDownloads[Len(FailedDownloads)].file)

\* C9 as stated: whenever no model file is resolved, the error message holds
\* the list of files of the remote repository and the last download error
\* met during the search.
C9_FilesAndLastError ==
    NotFound =>
        /\ err.has_files
        /\ err.files = calls[Len(calls)].files
        /\ err.cause = LastDownloadError

\* C9 amended: whenever no model file is resolved, the message holds
\* last_error, which is the error of the last named candidate tried
\* (lstm_model.keras; a failed download of the file found by the listing scan
\* is not recorded), and it holds the list of remote files exactly when the
\* final list_repo_files call succeeds; when that call raises, the message
\* says the repository may not exist or is private and lists no files.
C9_LastCandidateError ==
    NotFound =>
        LET c == calls[Len(calls)] IN
        /\ IsListing(c)
        /\ err.cause = DownloadError(keras_files[Len(keras_files)])
        /\ (c.ok => /\ err.has_files /\ err.files = c.files
                    /\ err.text = "Model file not found. Available files")
        /\ (~c.ok => /\ ~err.has_files /\ err.files = <<>>
                     /\ err.text = "Model file not found. Repository may not exist or is private")

\* the listing scan found a .keras file whose download failed, and the final
\* listing succeeded
C9_Witness ==
    /\ NotFound
    /\ err.has_files
    /\ Len(err.files) > 1
    /\ LastDownloadError # err.cause

-----------------------------------------------------------------------------
(* predict, 6-feature path: properties *)

Spans == {5, 10, 20}

MAField(row, n) == CASE n = 5 -> row.ma5 [] n = 10 -> row.ma10 [] n = 20 -> row.ma20

InSixChannelLoop == program = "B" /\ pc = "predict_loop" /\ IsSixChannel(model)

\* the form f is the sum of the window elements seq divided by cnt
IsMeanOf(f, seq, cnt) ==
    /\ f.c * cnt = f.d * Sum([j \in 1..Len(seq) |-> seq[j].c])
    /\ \A k \in 1..Len(predictions) :
          Coef(f, k) * cnt = f.d * Sum([j \in 1..Len(seq) |-> Coef(seq[j], k)])

\* C10 as stated: for every timestep i and span n, the moving average is the
\* mean of the window from max(0, i-n+1) through i (left-truncated at the
\* start), in the initial and in every recomputed feature matrix.
C10_LeftTruncated ==
    InSixChannelLoop =>
        \A i \in 1..SEQUENCE_LENGTH, n \in Spans :
            LET lo == IF i - n + 1 > 1 THEN i - n + 1 ELSE 1
            IN  IsMeanOf(MAField(input_tensor[i], n), SubSeq(current_sequence, lo, i), i - lo + 1)

\* C10 amended: from the n-th timestep on (0-based i >= n-1) the moving average
\* is the mean of exactly the n window elements i-n+1..i; at the earlier
\* timesteps (i < n-1) it is the price of timestep i itself, not a truncated
\* mean.  This holds for the initial and for every recomputed feature matrix.
C10_PriceAtStart ==
    InSixChannelLoop =>
        \A i \in 1..SEQUENCE_LENGTH, n \in Spans :
            LET f == MAField(input_tensor[i], n)
            IN  IF i >= n
                THEN IsMeanOf(f, SubSeq(current_sequence, i - n + 1, i), n)
                ELSE IsMeanOf(f, <<current_sequence[i]>>, 1)

\* a recomputed matrix whose second row has ma5 equal to the second price and
\* different from the mean of the first two prices, and whose last row
\* averages the newest prediction with the four values before it
C10_Witness ==
    /\ InSixChannelLoop
    /\ step_i >= 1
    /\ Len(input_tensor) = SEQUENCE_LENGTH
    /\ current_sequence[SEQUENCE_LENGTH] = Pred(step_i)
    /\ Coef(input_tensor[SEQUENCE_LENGTH].ma5, step_i) = 1
    /\ input_tensor[SEQUENCE_LENGTH].ma5.d = 5
    /\ input_tensor[2].ma5 = current_sequence[2]
    /\ current_sequence[1].p = <<>> /\ current_sequence[2].p = <<>>
    /\ 2 * current_sequence[2].c # current_sequence[1].c + current_sequence[2].c

====
